---------------------------- MODULE Spec2Model ----------------------------
(***************************************************************************)
(* A model of runtime/demo/hello_world_two_devices.c: one Instance, two    *)
(* Devices ("local-task" and "hip"), one Session per Device, one Call per  *)
(* Session, and the relay of the first Call's result through host memory   *)
(* into the second Call.                                                   *)
(*                                                                         *)
(* The demo's statements are modelled one action per statement.  The       *)
(* runtime operations it calls (the iree_runtime and iree_hal API) are not  *)
(* among the sources at hand; they are modelled from the runtime's         *)
(* specification, with one exception that the calling code decides: the    *)
(* caller releases every Buffer View right after pushing it (lines 138-139,*)
(* 162-163, 209-210, 230-231), so pushing adds a reference for the input   *)
(* list and leaves the caller's own reference with the caller.             *)
(*                                                                         *)
(* Three kinds of caller drive the runtime: mode "demo" is the program     *)
(* itself; mode "call" is an arbitrary caller of the Call protocol and     *)
(* mode "xfer" an arbitrary caller of allocate_buffer_copy/device_to_host, *)
(* both starting in the state the demo has at line 113.                    *)
(***************************************************************************)
EXTENDS Integers, Sequences, FiniteSets, TLC

\* ------------------------------------------------------------- bounds
\* Buffer Views the "call" caller may allocate.
MaxAllocs == 1
\* Inputs the "call" caller may push onto one Call.
MaxInputs == 3
\* Buffer Views the "xfer" caller may allocate.
MaxXferAllocs == 1

\* -------------------------------------------------- program constants
\* sizeof(float): the element size of IREE_HAL_ELEMENT_TYPE_FLOAT_32.
F32Bytes == 4
\* Values are kept as exact fixed-point integers, tenths of a unit.
Scale == 10

Devices == {"local-task", "hip"}
Sessions == {"cpu_session", "hip_session"}
Calls == {"call", "hip_call"}
LocalNames == {"arg0", "arg1", "ret0_out", "ret0", "arg2", "ret1"}
HostVars == {"ret0_data", "results", "scratch"}

\* Line 123-134 etc.: the shape and element type of every demo tensor.
arg_shape == <<4>>
ElementTypes == {"f32", "i32", "i8"}

ElementSize(etype) ==
  CASE etype = "f32" -> F32Bytes
    [] etype = "i32" -> 4
    [] etype = "i8" -> 1

RECURSIVE Product(_)
Product(shape) ==
  IF shape = <<>> THEN 1 ELSE Head(shape) * Product(Tail(shape))

StorageSize(shape, etype) == Product(shape) * ElementSize(etype)

Min(a, b) == IF a < b THEN a ELSE b

\* A float as the model keeps it: the fixed-point value, little-endian in
\* four bytes.
EncodeF32(x) ==
  << x % 256, (x \div 256) % 256, (x \div 65536) % 256, (x \div 16777216) % 256 >>

DecodeF32(b) == b[1] + 256 * b[2] + 65536 * b[3] + 16777216 * b[4]

RECURSIVE EncodeAll(_)
EncodeAll(xs) ==
  IF xs = <<>> THEN <<>> ELSE EncodeF32(Head(xs)) \o EncodeAll(Tail(xs))

DecodeAll(bytes) ==
  [i \in 1..(Len(bytes) \div F32Bytes) |->
     DecodeF32(SubSeq(bytes, F32Bytes * (i - 1) + 1, F32Bytes * i))]

\* The product of two fixed-point values, as a fixed-point value.
FMul(a, b) == (a * b) \div Scale

Zeros(n) == [i \in 1..n |-> 0]

\* Line 122: {1.0f, 1.1f, 1.2f, 1.3f}
arg0_data == EncodeAll(<<10, 11, 12, 13>>)
\* Line 146: {10.0f, 100.0f, 1000.0f, 10000.0f}
arg1_data == EncodeAll(<<100, 1000, 10000, 100000>>)
\* Line 216: {2000.0f, 200.0f, 20.0f, 2.0f}
arg2_data == EncodeAll(<<20000, 2000, 200, 20>>)

\* Lines 101-102: func.func @simple_mul(tensor<4xf32>, tensor<4xf32>) -> tensor<4xf32>
Tensor4xf32 == [shape |-> <<4>>, etype |-> "f32"]
DeclaredInputs == << Tensor4xf32, Tensor4xf32 >>
DeclaredResults == << Tensor4xf32 >>

VARIABLES
  mode,      \* who drives the runtime: "demo", "call" or "xfer"
  pc,        \* the demo's position (the line of its next statement)
  drivers,   \* the device backends available in this build
  instance,  \* [state, releases]
  devices,   \* device -> reference count
  devHeld,   \* device -> whether the caller holds its handle
  sessions,  \* session -> [state, dev, loaded]
  calls,     \* call -> [state, session, inputs, outputs, invoked, deinits]
  views,     \* Buffer Views, by id: [rc, held, dev, shape, etype, buf,
             \*   origin (the host data it was built from), of (the Call
             \*   it is a result of)]
  bufs,      \* device storage, by id: [dev, bytes, live]
  queue,     \* device -> its pending work, in submission order
  wait,      \* the blocking operation the caller is inside
  hostmem,   \* host arrays, by name
  local,     \* the demo's Buffer View pointers (0 is NULL)
  last       \* the last runtime operation and its outcome

vars == << mode, pc, drivers, instance, devices, devHeld, sessions, calls,
           views, bufs, queue, wait, hostmem, local, last >>

\* The runtime's state, as opposed to the caller's (mode, pc, local).
NoWait == [op |-> "none", dev |-> "", call |-> "", buf |-> 0, shape |-> <<>>,
           etype |-> "", origin |-> <<>>, timeout |-> ""]

Outcome(op, status, call, view) ==
  [op |-> op, status |-> status, call |-> call, view |-> view, off |-> 0,
   len |-> 0, dest |-> "", size |-> 0]

Work(kind, buf, a, b, src, off, len, dest) ==
  [kind |-> kind, buf |-> buf, a |-> a, b |-> b, src |-> src, off |-> off,
   len |-> len, dest |-> dest, done |-> 0]

\* Contents a fresh allocation may show before anything is written to it.
FillBytes == {0, 255}

SessionDevice(s) == sessions[s].dev
CallDevice(c) == SessionDevice(calls[c].session)

\* ---------------------------------------------------- Instance, Device
\* iree_runtime_instance_create
InstanceCreate(ok) ==
  /\ instance' = IF ok THEN [state |-> "live", releases |-> 0] ELSE instance
  /\ last' = Outcome("instance_create", IF ok THEN "ok" ELSE "ResourceExhausted", "", 0)
  /\ UNCHANGED << devices, devHeld, sessions, calls, views, bufs, queue, wait, hostmem >>

\* iree_runtime_instance_release
InstanceRelease ==
  /\ instance' = [state |-> "released", releases |-> instance.releases + 1]
  /\ last' = Outcome("instance_release", "ok", "", 0)
  /\ UNCHANGED << devices, devHeld, sessions, calls, views, bufs, queue, wait, hostmem >>

\* iree_runtime_instance_try_create_default_device: a fresh handle, or
\* NotFound when the backend is unavailable.
TryCreateDefaultDevice(d) ==
  /\ IF d \in drivers
       THEN /\ devices' = [devices EXCEPT ![d] = @ + 1]
            /\ devHeld' = [devHeld EXCEPT ![d] = TRUE]
            /\ last' = Outcome("create_device", "ok", "", 0)
       ELSE /\ UNCHANGED << devices, devHeld >>
            /\ last' = Outcome("create_device", "NotFound", "", 0)
  /\ UNCHANGED << instance, sessions, calls, views, bufs, queue, wait, hostmem >>

\* iree_hal_device_release: the caller gives up its handle.
DeviceRelease(d) ==
  /\ devices' = [devices EXCEPT ![d] = @ - 1]
  /\ devHeld' = [devHeld EXCEPT ![d] = FALSE]
  /\ last' = Outcome("device_release", "ok", "", 0)
  /\ UNCHANGED << instance, sessions, calls, views, bufs, queue, wait, hostmem >>

\* ------------------------------------------------------------- Session
\* iree_runtime_session_create_with_device: binds the Session to d and
\* keeps a reference to it.
SessionCreate(s, d, ok) ==
  /\ IF ok
       THEN /\ sessions' = [sessions EXCEPT ![s] =
                               [state |-> "live", dev |-> d, loaded |-> FALSE]]
            /\ devices' = [devices EXCEPT ![d] = @ + 1]
            /\ last' = Outcome("session_create", "ok", "", 0)
       ELSE /\ UNCHANGED << sessions, devices >>
            /\ last' = Outcome("session_create", "ResourceExhausted", "", 0)
  /\ UNCHANGED << instance, devHeld, calls, views, bufs, queue, wait, hostmem >>

\* iree_runtime_session_append_bytecode_module_from_memory
AppendModule(s, ok) ==
  /\ IF ok
       THEN /\ sessions' = [sessions EXCEPT ![s].loaded = TRUE]
            /\ last' = Outcome("load_module", "ok", "", 0)
       ELSE /\ UNCHANGED sessions
            /\ last' = Outcome("load_module", "FormatError", "", 0)
  /\ UNCHANGED << instance, devices, devHeld, calls, views, bufs, queue, wait, hostmem >>

\* iree_runtime_session_release: gives up the Session's Device reference.
SessionRelease(s) ==
  /\ sessions' = [sessions EXCEPT ![s].state = "released"]
  /\ devices' = [devices EXCEPT ![SessionDevice(s)] = @ - 1]
  /\ last' = Outcome("session_release", "ok", "", 0)
  /\ UNCHANGED << instance, devHeld, calls, views, bufs, queue, wait, hostmem >>

\* --------------------------------------------------------- Buffer View
\* A view whose reference count has reached zero frees its storage.
FreeDead(bs, vs) ==
  [b \in DOMAIN bs |->
     IF \E v \in DOMAIN vs : vs[v].buf = b /\ vs[v].rc > 0
       THEN bs[b]
       ELSE [bs[b] EXCEPT !.live = FALSE]]

\* iree_hal_buffer_view_allocate_buffer_copy, up to the submission of the
\* host-to-device copy: the byte length of host_data must equal the storage
\* size, or nothing is allocated.
AllocateSubmit(d, shape, etype, data, ok, fill) ==
  LET n == StorageSize(shape, etype)
      outcome(status) == [Outcome("alloc", status, "", 0) EXCEPT
                            !.len = Len(data), !.size = n]
  IN
  IF Len(data) # n
    THEN /\ last' = outcome("SizeMismatch")
         /\ UNCHANGED << instance, devices, devHeld, sessions, calls, views,
                         bufs, queue, wait, hostmem >>
    ELSE IF ~ok
      THEN /\ last' = outcome("ResourceExhausted")
           /\ UNCHANGED << instance, devices, devHeld, sessions, calls, views,
                           bufs, queue, wait, hostmem >>
      ELSE /\ bufs' = Append(bufs, [dev |-> d, bytes |-> [i \in 1..n |-> fill],
                                    live |-> TRUE])
           /\ queue' = IF n = 0 THEN queue
                       ELSE [queue EXCEPT ![d] =
                               Append(@, Work("h2d", Len(bufs) + 1, 0, 0, data, 0, n, ""))]
           /\ wait' = [NoWait EXCEPT !.op = "alloc", !.dev = d,
                         !.buf = Len(bufs) + 1, !.shape = shape,
                         !.etype = etype, !.origin = data]
           /\ last' = outcome("pending")
           /\ UNCHANGED << instance, devices, devHeld, sessions, calls, views,
                           hostmem >>

\* iree_hal_buffer_view_allocate_buffer_copy returns, once the copy is
\* done: the caller receives the one reference.
AllocateReturn ==
  /\ wait.op = "alloc"
  /\ queue[wait.dev] = <<>>
  /\ views' = Append(views, [rc |-> 1, held |-> 1, dev |-> wait.dev,
                             shape |-> wait.shape, etype |-> wait.etype,
                             buf |-> wait.buf, origin |-> wait.origin,
                             of |-> ""])
  /\ wait' = NoWait
  /\ last' = [last EXCEPT !.status = "ok", !.view = Len(views) + 1]
  /\ UNCHANGED << instance, devices, devHeld, sessions, calls, bufs, queue, hostmem >>

\* iree_hal_buffer_view_release: the caller gives up one reference.
ViewRelease(v) ==
  LET vs == [views EXCEPT ![v].rc = @ - 1, ![v].held = @ - 1] IN
  /\ views' = vs
  /\ bufs' = FreeDead(bufs, vs)
  /\ last' = Outcome("release", "ok", "", v)
  /\ UNCHANGED << instance, devices, devHeld, sessions, calls, queue, wait, hostmem >>

\* iree_hal_buffer_view_fprint: reads the view, changes nothing.
Fprint(v) ==
  /\ last' = Outcome("fprint", "ok", "", v)
  /\ UNCHANGED << instance, devices, devHeld, sessions, calls, views, bufs,
                  queue, wait, hostmem >>

\* ---------------------------------------------------------------- Call
\* iree_runtime_call_initialize_by_name: NotFound when the Session's
\* modules export no function of that name.
CallInitialize(c, s, ok) ==
  /\ IF ok
       THEN /\ calls' = [calls EXCEPT ![c] =
                           [state |-> "init", session |-> s, inputs |-> <<>>,
                            outputs |-> <<>>, invoked |-> FALSE,
                            deinits |-> @.deinits]]
            /\ last' = Outcome("call_initialize", "ok", c, 0)
       ELSE /\ UNCHANGED calls
            /\ last' = Outcome("call_initialize", "NotFound", c, 0)
  /\ UNCHANGED << instance, devices, devHeld, sessions, views, bufs, queue, wait, hostmem >>

\* iree_runtime_call_inputs_push_back_buffer_view: appends v and keeps a
\* reference to it for the list; fails once the Call was invoked, and for
\* a view of another Device than the Session's.
PushInput(c, v) ==
  IF calls[c].invoked
    THEN /\ last' = Outcome("push", "FailedPrecondition", c, v)
         /\ UNCHANGED << instance, devices, devHeld, sessions, calls, views,
                         bufs, queue, wait, hostmem >>
    ELSE IF views[v].dev # CallDevice(c)
      THEN /\ last' = Outcome("push", "DeviceMismatch", c, v)
           /\ UNCHANGED << instance, devices, devHeld, sessions, calls, views,
                           bufs, queue, wait, hostmem >>
      ELSE /\ calls' = [calls EXCEPT ![c].inputs = Append(@, v)]
           /\ views' = [views EXCEPT ![v].rc = @ + 1]
           /\ last' = Outcome("push", "ok", c, v)
           /\ UNCHANGED << instance, devices, devHeld, sessions, bufs, queue,
                           wait, hostmem >>

\* Whether the pushed inputs are exactly the declared ones.
SignatureMatches(inputs) ==
  /\ Len(inputs) = Len(DeclaredInputs)
  /\ \A i \in 1..Len(DeclaredInputs) :
       /\ views[inputs[i]].shape = DeclaredInputs[i].shape
       /\ views[inputs[i]].etype = DeclaredInputs[i].etype

\* iree_runtime_call_invoke, up to the submission of the function's work to
\* the Session's Device.
InvokeSubmit(c, fault, fill) ==
  LET d == CallDevice(c)
      n == StorageSize(DeclaredResults[1].shape, DeclaredResults[1].etype)
      failed(status) ==
        /\ calls' = [calls EXCEPT ![c].invoked = TRUE]
        /\ last' = Outcome("invoke", status, c, 0)
        /\ UNCHANGED << instance, devices, devHeld, sessions, views, bufs,
                        queue, wait, hostmem >>
  IN
  IF calls[c].invoked
    THEN /\ last' = Outcome("invoke", "FailedPrecondition", c, 0)
         /\ UNCHANGED << instance, devices, devHeld, sessions, calls, views,
                         bufs, queue, wait, hostmem >>
    ELSE IF ~SignatureMatches(calls[c].inputs)
      THEN failed("InvalidArgument")
      ELSE IF fault
        THEN failed("Internal")
        ELSE /\ calls' = [calls EXCEPT ![c].invoked = TRUE]
             /\ bufs' = Append(bufs, [dev |-> d, bytes |-> [i \in 1..n |-> fill],
                                      live |-> TRUE])
             /\ queue' = [queue EXCEPT ![d] =
                            Append(@, Work("mul", Len(bufs) + 1,
                                           views[calls[c].inputs[1]].buf,
                                           views[calls[c].inputs[2]].buf,
                                           <<>>, 0, n, ""))]
             /\ wait' = [NoWait EXCEPT !.op = "invoke", !.dev = d, !.call = c,
                           !.buf = Len(bufs) + 1]
             /\ last' = Outcome("invoke", "pending", c, 0)
             /\ UNCHANGED << instance, devices, devHeld, sessions, views, hostmem >>

\* iree_runtime_call_invoke returns, once the work is done: the output
\* list holds the declared result.
InvokeReturn ==
  /\ wait.op = "invoke"
  /\ queue[wait.dev] = <<>>
  /\ views' = Append(views, [rc |-> 1, held |-> 0, dev |-> wait.dev,
                             shape |-> DeclaredResults[1].shape,
                             etype |-> DeclaredResults[1].etype,
                             buf |-> wait.buf, origin |-> <<>>,
                             of |-> wait.call])
  /\ calls' = [calls EXCEPT ![wait.call].outputs = Append(@, Len(views) + 1)]
  /\ wait' = NoWait
  /\ last' = Outcome("invoke", "ok", wait.call, 0)
  /\ UNCHANGED << instance, devices, devHeld, sessions, bufs, queue, hostmem >>

\* iree_runtime_call_outputs_pop_front_buffer_view: the first unconsumed
\* output, whose reference passes from the list to the caller.
PopOutput(c) ==
  IF calls[c].outputs = <<>>
    THEN /\ last' = Outcome("pop", "ResourceExhausted", c, 0)
         /\ UNCHANGED << instance, devices, devHeld, sessions, calls, views,
                         bufs, queue, wait, hostmem >>
    ELSE /\ calls' = [calls EXCEPT ![c].outputs = Tail(@)]
         /\ views' = [views EXCEPT ![Head(calls[c].outputs)].held = @ + 1]
         /\ last' = Outcome("pop", "ok", c, Head(calls[c].outputs))
         /\ UNCHANGED << instance, devices, devHeld, sessions, bufs, queue,
                         wait, hostmem >>

\* iree_runtime_call_deinitialize: releases the references the lists
\* still hold.
Deinitialize(c) ==
  LET refs == calls[c].inputs \o calls[c].outputs
      count(v) == Cardinality({i \in DOMAIN refs : refs[i] = v})
      vs == [v \in DOMAIN views |-> [views[v] EXCEPT !.rc = @ - count(v)]]
  IN
  /\ calls' = [calls EXCEPT ![c].state = "deinit", ![c].inputs = <<>>,
                 ![c].outputs = <<>>, ![c].deinits = @ + 1]
  /\ views' = vs
  /\ bufs' = FreeDead(bufs, vs)
  /\ last' = Outcome("deinitialize", "ok", c, 0)
  /\ UNCHANGED << instance, devices, devHeld, sessions, queue, wait, hostmem >>

\* ------------------------------------------------------------ Transfer
\* iree_hal_device_transfer_d2h, up to the submission of the copy.  The
\* destination array is the caller's.
TransferSubmit(d, v, off, len, dest, timeout) ==
  /\ queue' = IF len = 0 THEN queue
              ELSE [queue EXCEPT ![d] =
                      Append(@, Work("d2h", views[v].buf, 0, 0, <<>>, off, len, dest))]
  /\ wait' = [NoWait EXCEPT !.op = "d2h", !.dev = d, !.buf = views[v].buf,
                !.timeout = timeout]
  /\ last' = [Outcome("d2h", "pending", "", v) EXCEPT
                !.off = off, !.len = len, !.dest = dest]
  /\ UNCHANGED << instance, devices, devHeld, sessions, calls, views, bufs >>

\* iree_hal_device_transfer_d2h returns, once the copy is done.
TransferReturn ==
  /\ wait.op = "d2h"
  /\ queue[wait.dev] = <<>>
  /\ wait' = NoWait
  /\ last' = [last EXCEPT !.status = "ok"]
  /\ UNCHANGED << instance, devices, devHeld, sessions, calls, views, bufs,
                  queue, hostmem >>

\* iree_hal_device_transfer_d2h gives up: the timeout has elapsed and the
\* copy is not done.  The copy is abandoned where it stands.
TransferTimeout ==
  /\ wait.op = "d2h"
  /\ wait.timeout = "zero"
  /\ queue[wait.dev] # <<>>
  /\ queue' = [queue EXCEPT ![wait.dev] = Tail(@)]
  /\ wait' = NoWait
  /\ last' = [last EXCEPT !.status = "Timeout"]
  /\ UNCHANGED << instance, devices, devHeld, sessions, calls, views, bufs, hostmem >>

\* -------------------------------------------------------------- Device
\* One step of a Device's own work: the next element (F32Bytes bytes) of
\* the work item at the head of its queue.
DeviceStep(d) ==
  /\ queue[d] # <<>>
  /\ LET w == Head(queue[d])
         lo == w.done + 1
         hi == w.done + Min(F32Bytes, w.len - w.done)
     IN
     /\ queue' = [queue EXCEPT ![d] =
                    IF hi = w.len THEN Tail(@)
                    ELSE << [w EXCEPT !.done = hi] >> \o Tail(@)]
     /\ CASE w.kind = "h2d" ->
               /\ bufs' = [bufs EXCEPT ![w.buf].bytes =
                             [i \in DOMAIN @ |->
                                IF i \in lo..hi THEN w.src[i] ELSE @[i]]]
               /\ UNCHANGED hostmem
          [] w.kind = "mul" ->
               /\ bufs' = [bufs EXCEPT ![w.buf].bytes =
                             LET x == EncodeF32(
                                        FMul(DecodeF32(SubSeq(bufs[w.a].bytes, lo, hi)),
                                             DecodeF32(SubSeq(bufs[w.b].bytes, lo, hi))))
                             IN [i \in DOMAIN @ |->
                                   IF i \in lo..hi THEN x[i - w.done] ELSE @[i]]]
               /\ UNCHANGED hostmem
          [] w.kind = "d2h" ->
               /\ hostmem' = [hostmem EXCEPT ![w.dest] =
                                [i \in DOMAIN @ |->
                                   IF i \in lo..hi THEN bufs[w.buf].bytes[w.off + i]
                                   ELSE @[i]]]
               /\ UNCHANGED bufs
  /\ UNCHANGED << mode, pc, drivers, instance, devices, devHeld, sessions,
                  calls, views, wait, local, last >>

\* ================================================================ demo
\* The demo is at statement l and inside no blocking call.
At(l) == mode = "demo" /\ pc = l /\ wait.op = "none"

\* IREE_CHECK_OK around a call: go on when it returned ok, abort the
\* process otherwise.
CheckOk(next) == pc' = IF last'.status = "ok" THEN next ELSE "aborted"

\* IREE_CHECK_OK around a blocking call that has submitted its work: the
\* caller is inside the call until it returns.
CheckSubmitted(inside) == pc' = IF last'.status = "pending" THEN inside ELSE "aborted"

\* main, lines 28-32
Main_InstanceCreate ==
  /\ At("L28")
  /\ \E ok \in BOOLEAN : InstanceCreate(ok)
  /\ CheckOk("L50")
  /\ UNCHANGED << mode, drivers, local >>

\* iree_runtime_demo_run_session, lines 49-51
Run_CreateDevice ==
  /\ At("L50")
  /\ TryCreateDefaultDevice("local-task")
  /\ CheckOk("L54")
  /\ UNCHANGED << mode, drivers, local >>

\* lines 53-55
Run_CreateHipDevice ==
  /\ At("L54")
  /\ TryCreateDefaultDevice("hip")
  /\ CheckOk("L63")
  /\ UNCHANGED << mode, drivers, local >>

\* lines 60-65
Run_CreateSession ==
  /\ At("L63")
  /\ \E ok \in BOOLEAN : SessionCreate("cpu_session", "local-task", ok)
  /\ CheckOk("L66")
  /\ UNCHANGED << mode, drivers, local >>

\* line 66
Run_ReleaseDevice ==
  /\ At("L66")
  /\ DeviceRelease("local-task")
  /\ pc' = "L71"
  /\ UNCHANGED << mode, drivers, local >>

\* lines 68-73
Run_CreateHipSession ==
  /\ At("L71")
  /\ \E ok \in BOOLEAN : SessionCreate("hip_session", "hip", ok)
  /\ CheckOk("L74")
  /\ UNCHANGED << mode, drivers, local >>

\* Line 74 with device written for hip_device: the first Device is
\* released a second time.
Run_ReleaseHipDevice_WrongDevice ==
  /\ At("L74")
  /\ DeviceRelease("local-task")
  /\ pc' = "L80"
  /\ UNCHANGED << mode, drivers, local >>

\* line 74
Run_ReleaseHipDevice ==
  /\ At("L74")
  /\ DeviceRelease("hip")
  /\ pc' = "L80"
  /\ UNCHANGED << mode, drivers, local >>

\* lines 78-82
Run_LoadModule ==
  /\ At("L80")
  /\ \E ok \in BOOLEAN : AppendModule("cpu_session", ok)
  /\ CheckOk("L86")
  /\ UNCHANGED << mode, drivers, local >>

\* lines 84-91
Run_LoadHipModule ==
  /\ At("L86")
  /\ \E ok \in BOOLEAN : AppendModule("hip_session", ok)
  /\ CheckOk("L106")
  /\ UNCHANGED << mode, drivers, local >>

\* iree_runtime_demo_perform_mul_dual, lines 105-107
Mul_InitCall ==
  /\ At("L106")
  /\ \E ok \in BOOLEAN : CallInitialize("call", "cpu_session", ok)
  /\ CheckOk("L110")
  /\ UNCHANGED << mode, drivers, local >>

\* lines 109-111
Mul_InitHipCall ==
  /\ At("L110")
  /\ \E ok \in BOOLEAN : CallInitialize("hip_call", "hip_session", ok)
  /\ CheckOk("L123")
  /\ UNCHANGED << mode, drivers, local >>

\* Lines 120-134 with the byte span cut to two of the four floats.
Mul_AllocArg0_ShortData ==
  /\ At("L123")
  /\ \E ok \in BOOLEAN, fill \in FillBytes :
       AllocateSubmit(SessionDevice("cpu_session"), arg_shape, "f32",
                      SubSeq(arg0_data, 1, 2 * F32Bytes), ok, fill)
  /\ CheckSubmitted("L123w")
  /\ UNCHANGED << mode, drivers, local >>

\* lines 120-134, up to the submission of the copy
Mul_AllocArg0 ==
  /\ At("L123")
  /\ \E ok \in BOOLEAN, fill \in FillBytes :
       AllocateSubmit(SessionDevice("cpu_session"), arg_shape, "f32", arg0_data, ok, fill)
  /\ CheckSubmitted("L123w")
  /\ UNCHANGED << mode, drivers, local >>

\* lines 123-134, the return with arg0 set
Mul_AllocArg0Return ==
  /\ mode = "demo" /\ pc = "L123w"
  /\ AllocateReturn
  /\ local' = [local EXCEPT !["arg0"] = last'.view]
  /\ CheckOk("L135")
  /\ UNCHANGED << mode, drivers >>

\* lines 135-137
Mul_PrintArg0 ==
  /\ At("L135")
  /\ Fprint(local["arg0"])
  /\ CheckOk("L138")
  /\ UNCHANGED << mode, drivers, local >>

\* line 138
Mul_PushArg0 ==
  /\ At("L138")
  /\ PushInput("call", local["arg0"])
  /\ CheckOk("L139")
  /\ UNCHANGED << mode, drivers, local >>

\* Line 139 left out: arg0 is not released after the push.
Mul_ReleaseArg0_Omitted ==
  /\ At("L139")
  /\ Fprint(local["arg0"])
  /\ pc' = "L147"
  /\ UNCHANGED << mode, drivers, local >>

\* line 139
Mul_ReleaseArg0 ==
  /\ At("L139")
  /\ ViewRelease(local["arg0"])
  /\ pc' = "L147"
  /\ UNCHANGED << mode, drivers, local >>

\* lines 144-158, up to the submission of the copy
Mul_AllocArg1 ==
  /\ At("L147")
  /\ \E ok \in BOOLEAN, fill \in FillBytes :
       AllocateSubmit(SessionDevice("cpu_session"), arg_shape, "f32", arg1_data, ok, fill)
  /\ CheckSubmitted("L147w")
  /\ UNCHANGED << mode, drivers, local >>

\* lines 147-158, the return with arg1 set
Mul_AllocArg1Return ==
  /\ mode = "demo" /\ pc = "L147w"
  /\ AllocateReturn
  /\ local' = [local EXCEPT !["arg1"] = last'.view]
  /\ CheckOk("L159")
  /\ UNCHANGED << mode, drivers >>

\* lines 159-161
Mul_PrintArg1 ==
  /\ At("L159")
  /\ Fprint(local["arg1"])
  /\ CheckOk("L162")
  /\ UNCHANGED << mode, drivers, local >>

\* Line 162 with arg0 written for arg1.
Mul_PushArg1_Arg0Again ==
  /\ At("L162")
  /\ PushInput("call", local["arg0"])
  /\ CheckOk("L163")
  /\ UNCHANGED << mode, drivers, local >>

\* Line 162 left out: arg1 is never pushed.
Mul_PushArg1_Skipped ==
  /\ At("L162")
  /\ Fprint(local["arg1"])
  /\ CheckOk("L163")
  /\ UNCHANGED << mode, drivers, local >>

\* line 162
Mul_PushArg1 ==
  /\ At("L162")
  /\ PushInput("call", local["arg1"])
  /\ CheckOk("L163")
  /\ UNCHANGED << mode, drivers, local >>

\* line 163
Mul_ReleaseArg1 ==
  /\ At("L163")
  /\ ViewRelease(local["arg1"])
  /\ pc' = "L165"
  /\ UNCHANGED << mode, drivers, local >>

\* line 165, up to the submission of the work
Mul_Invoke ==
  /\ At("L165")
  /\ \E fault \in BOOLEAN, fill \in FillBytes : InvokeSubmit("call", fault, fill)
  /\ CheckSubmitted("L165w")
  /\ UNCHANGED << mode, drivers, local >>

\* line 165, the return
Mul_InvokeReturn ==
  /\ mode = "demo" /\ pc = "L165w"
  /\ InvokeReturn
  /\ CheckOk("L171")
  /\ UNCHANGED << mode, drivers, local >>

\* Line 171 with &hip_call written for &call.
Mul_PopRet0Out_WrongCall ==
  /\ At("L171")
  /\ PopOutput("hip_call")
  /\ local' = [local EXCEPT !["ret0_out"] = last'.view]
  /\ CheckOk("L174")
  /\ UNCHANGED << mode, drivers >>

\* lines 170-171
Mul_PopRet0Out ==
  /\ At("L171")
  /\ PopOutput("call")
  /\ local' = [local EXCEPT !["ret0_out"] = last'.view]
  /\ CheckOk("L174")
  /\ UNCHANGED << mode, drivers >>

\* Lines 174-177 with a release of ret0_out in the place of the print.
Mul_PrintRet0Out_Released ==
  /\ At("L174")
  /\ ViewRelease(local["ret0_out"])
  /\ CheckOk("L179")
  /\ UNCHANGED << mode, drivers, local >>

\* lines 174-177
Mul_PrintRet0Out ==
  /\ At("L174")
  /\ Fprint(local["ret0_out"])
  /\ CheckOk("L179")
  /\ UNCHANGED << mode, drivers, local >>

\* line 179
Mul_DeinitCall ==
  /\ At("L179")
  /\ Deinitialize("call")
  /\ pc' = "L188"
  /\ UNCHANGED << mode, drivers, local >>

\* lines 186-193, up to the submission of the copy: ret0_data declared
\* and zeroed, then sizeof(ret0_data) bytes from offset 0, with
\* iree_infinite_timeout()
Mul_TransferRet0 ==
  /\ At("L188")
  /\ hostmem' = [hostmem EXCEPT !["ret0_data"] = Zeros(StorageSize(arg_shape, "f32"))]
  /\ TransferSubmit(SessionDevice("cpu_session"), local["ret0_out"], 0,
                    Len(hostmem["ret0_data"]), "ret0_data", "infinite")
  /\ CheckSubmitted("L188w")
  /\ UNCHANGED << mode, drivers, local >>

\* Lines 188-193 returning ok at once, whether or not the copy is done.
Mul_TransferRet0Return_NoWait ==
  /\ mode = "demo" /\ pc = "L188w"
  /\ wait.op = "d2h"
  /\ wait' = NoWait
  /\ last' = [last EXCEPT !.status = "ok"]
  /\ CheckOk("L196")
  /\ UNCHANGED << mode, drivers, local, instance, devices, devHeld, sessions,
                  calls, views, bufs, queue, hostmem >>

\* lines 188-193, the return
Mul_TransferRet0Return ==
  /\ mode = "demo" /\ pc = "L188w"
  /\ TransferReturn
  /\ CheckOk("L196")
  /\ UNCHANGED << mode, drivers, local >>

\* Lines 195-206 with a shape of two elements for the four of ret0_data.
Mul_AllocRet0_ShortShape ==
  /\ At("L196")
  /\ \E ok \in BOOLEAN, fill \in FillBytes :
       AllocateSubmit(SessionDevice("hip_session"), << 2 >>, "f32",
                      hostmem["ret0_data"], ok, fill)
  /\ CheckSubmitted("L196w")
  /\ UNCHANGED << mode, drivers, local >>

\* lines 195-206, up to the submission of the copy
Mul_AllocRet0 ==
  /\ At("L196")
  /\ \E ok \in BOOLEAN, fill \in FillBytes :
       AllocateSubmit(SessionDevice("hip_session"), arg_shape, "f32",
                      hostmem["ret0_data"], ok, fill)
  /\ CheckSubmitted("L196w")
  /\ UNCHANGED << mode, drivers, local >>

\* lines 196-206, the return with ret0 set
Mul_AllocRet0Return ==
  /\ mode = "demo" /\ pc = "L196w"
  /\ AllocateReturn
  /\ local' = [local EXCEPT !["ret0"] = last'.view]
  /\ CheckOk("L209")
  /\ UNCHANGED << mode, drivers >>

\* Line 209 with &call written for &hip_call.
Mul_PushRet0_WrongCall ==
  /\ At("L209")
  /\ PushInput("call", local["ret0"])
  /\ CheckOk("L210")
  /\ UNCHANGED << mode, drivers, local >>

\* Line 209 with ret0_out, the view on the first Device, written for ret0.
Mul_PushRet0_Direct ==
  /\ At("L209")
  /\ PushInput("hip_call", local["ret0_out"])
  /\ CheckOk("L210")
  /\ UNCHANGED << mode, drivers, local >>

\* line 209
Mul_PushRet0 ==
  /\ At("L209")
  /\ PushInput("hip_call", local["ret0"])
  /\ CheckOk("L210")
  /\ UNCHANGED << mode, drivers, local >>

\* line 210
Mul_ReleaseRet0 ==
  /\ At("L210")
  /\ ViewRelease(local["ret0"])
  /\ pc' = "L217"
  /\ UNCHANGED << mode, drivers, local >>

\* lines 214-228, up to the submission of the copy
Mul_AllocArg2 ==
  /\ At("L217")
  /\ \E ok \in BOOLEAN, fill \in FillBytes :
       AllocateSubmit(SessionDevice("hip_session"), arg_shape, "f32", arg2_data, ok, fill)
  /\ CheckSubmitted("L217w")
  /\ UNCHANGED << mode, drivers, local >>

\* lines 217-228, the return with arg2 set
Mul_AllocArg2Return ==
  /\ mode = "demo" /\ pc = "L217w"
  /\ AllocateReturn
  /\ local' = [local EXCEPT !["arg2"] = last'.view]
  /\ CheckOk("L230")
  /\ UNCHANGED << mode, drivers >>

\* line 230
Mul_PushArg2 ==
  /\ At("L230")
  /\ PushInput("hip_call", local["arg2"])
  /\ CheckOk("L231")
  /\ UNCHANGED << mode, drivers, local >>

\* line 231
Mul_ReleaseArg2 ==
  /\ At("L231")
  /\ ViewRelease(local["arg2"])
  /\ pc' = "L233"
  /\ UNCHANGED << mode, drivers, local >>

\* Line 233 with &call written for &hip_call: the first Call is invoked
\* again.
Mul_InvokeHip_FirstCallAgain ==
  /\ At("L233")
  /\ \E fault \in BOOLEAN, fill \in FillBytes : InvokeSubmit("call", fault, fill)
  /\ CheckSubmitted("L233w")
  /\ UNCHANGED << mode, drivers, local >>

\* line 233, up to the submission of the work
Mul_InvokeHip ==
  /\ At("L233")
  /\ \E fault \in BOOLEAN, fill \in FillBytes : InvokeSubmit("hip_call", fault, fill)
  /\ CheckSubmitted("L233w")
  /\ UNCHANGED << mode, drivers, local >>

\* line 233, the return
Mul_InvokeHipReturn ==
  /\ mode = "demo" /\ pc = "L233w"
  /\ InvokeReturn
  /\ CheckOk("L237")
  /\ UNCHANGED << mode, drivers, local >>

\* lines 236-237
Mul_PopRet1 ==
  /\ At("L237")
  /\ PopOutput("hip_call")
  /\ local' = [local EXCEPT !["ret1"] = last'.view]
  /\ CheckOk("L241")
  /\ UNCHANGED << mode, drivers >>

\* Lines 240-245 with a zero timeout written for iree_infinite_timeout().
Mul_TransferRet1_ZeroTimeout ==
  /\ At("L241")
  /\ hostmem' = [hostmem EXCEPT !["results"] = Zeros(StorageSize(arg_shape, "f32"))]
  /\ TransferSubmit(SessionDevice("hip_session"), local["ret1"], 0,
                    Len(hostmem["results"]), "results", "zero")
  /\ CheckSubmitted("L241w")
  /\ UNCHANGED << mode, drivers, local >>

\* lines 240-245, up to the submission of the copy
Mul_TransferRet1 ==
  /\ At("L241")
  /\ hostmem' = [hostmem EXCEPT !["results"] = Zeros(StorageSize(arg_shape, "f32"))]
  /\ TransferSubmit(SessionDevice("hip_session"), local["ret1"], 0,
                    Len(hostmem["results"]), "results", "infinite")
  /\ CheckSubmitted("L241w")
  /\ UNCHANGED << mode, drivers, local >>

\* lines 241-245, the return
Mul_TransferRet1Return ==
  /\ mode = "demo" /\ pc = "L241w"
  /\ TransferReturn
  /\ CheckOk("L247")
  /\ UNCHANGED << mode, drivers, local >>

\* line 247
Mul_ReleaseRet1 ==
  /\ At("L247")
  /\ ViewRelease(local["ret1"])
  /\ pc' = "L257"
  /\ UNCHANGED << mode, drivers, local >>

\* line 257, and the return to iree_runtime_demo_run_session
Mul_DeinitHipCall ==
  /\ At("L257")
  /\ Deinitialize("hip_call")
  /\ pc' = "L93"
  /\ UNCHANGED << mode, drivers, local >>

\* iree_runtime_demo_run_session, line 93
Run_ReleaseSession ==
  /\ At("L93")
  /\ SessionRelease("cpu_session")
  /\ pc' = "L94"
  /\ UNCHANGED << mode, drivers, local >>

\* Line 94 left out: run_session returns with hip_session not released.
Run_ReleaseHipSession_Omitted ==
  /\ At("L94")
  /\ last' = Outcome("return", "ok", "", 0)
  /\ pc' = "L34"
  /\ UNCHANGED << mode, drivers, local, instance, devices, devHeld, sessions,
                  calls, views, bufs, queue, wait, hostmem >>

\* line 94, and the return to main
Run_ReleaseHipSession ==
  /\ At("L94")
  /\ SessionRelease("hip_session")
  /\ pc' = "L34"
  /\ UNCHANGED << mode, drivers, local >>

\* main, lines 34-35
Main_InstanceRelease ==
  /\ At("L34")
  /\ InstanceRelease
  /\ pc' = "done"
  /\ UNCHANGED << mode, drivers, local >>

DemoNext ==
  \/ Main_InstanceCreate \/ Run_CreateDevice \/ Run_CreateHipDevice
  \/ Run_CreateSession \/ Run_ReleaseDevice \/ Run_CreateHipSession
  \/ Run_ReleaseHipDevice \/ Run_LoadModule \/ Run_LoadHipModule
  \/ Mul_InitCall \/ Mul_InitHipCall
  \/ Mul_AllocArg0 \/ Mul_AllocArg0Return \/ Mul_PrintArg0 \/ Mul_PushArg0
  \/ Mul_ReleaseArg0
  \/ Mul_AllocArg1 \/ Mul_AllocArg1Return \/ Mul_PrintArg1 \/ Mul_PushArg1
  \/ Mul_ReleaseArg1
  \/ Mul_Invoke \/ Mul_InvokeReturn \/ Mul_PopRet0Out \/ Mul_PrintRet0Out
  \/ Mul_DeinitCall
  \/ Mul_TransferRet0 \/ Mul_TransferRet0Return
  \/ Mul_AllocRet0 \/ Mul_AllocRet0Return \/ Mul_PushRet0 \/ Mul_ReleaseRet0
  \/ Mul_AllocArg2 \/ Mul_AllocArg2Return \/ Mul_PushArg2 \/ Mul_ReleaseArg2
  \/ Mul_InvokeHip \/ Mul_InvokeHipReturn \/ Mul_PopRet1
  \/ Mul_TransferRet1 \/ Mul_TransferRet1Return \/ Mul_ReleaseRet1
  \/ Mul_DeinitHipCall
  \/ Run_ReleaseSession \/ Run_ReleaseHipSession \/ Main_InstanceRelease

\* ================================================================ Init
HostInit ==
  [h \in HostVars |-> Zeros(StorageSize(arg_shape, "f32"))]

\* The state at the entry of main: nothing exists yet.  Which backends the
\* build has is the environment's choice.
DemoInit ==
  /\ mode = "demo"
  /\ pc = "L28"
  /\ drivers \in SUBSET Devices
  /\ instance = [state |-> "none", releases |-> 0]
  /\ devices = [d \in Devices |-> 0]
  /\ devHeld = [d \in Devices |-> FALSE]
  /\ sessions = [s \in Sessions |-> [state |-> "none", dev |-> "", loaded |-> FALSE]]
  /\ calls = [c \in Calls |->
                [state |-> "uninit", session |-> "", inputs |-> <<>>,
                 outputs |-> <<>>, invoked |-> FALSE, deinits |-> 0]]
  /\ views = <<>>
  /\ bufs = <<>>
  /\ queue = [d \in Devices |-> <<>>]
  /\ wait = NoWait
  /\ hostmem = HostInit
  /\ local = [n \in LocalNames |-> 0]
  /\ last = Outcome("none", "ok", "", 0)

\* ============================================================= callers
\* The state the demo has at line 113, with both Calls initialized: where
\* an arbitrary caller of the runtime takes over.
CallerInit(m) ==
  /\ mode = m
  /\ pc = "caller"
  /\ drivers = Devices
  /\ instance = [state |-> "live", releases |-> 0]
  /\ devices = [d \in Devices |-> 1]
  /\ devHeld = [d \in Devices |-> FALSE]
  /\ sessions = [s \in Sessions |->
                   [state |-> "live",
                    dev |-> IF s = "cpu_session" THEN "local-task" ELSE "hip",
                    loaded |-> TRUE]]
  /\ calls = [c \in Calls |->
                [state |-> "init",
                 session |-> IF c = "call" THEN "cpu_session" ELSE "hip_session",
                 inputs |-> <<>>, outputs |-> <<>>, invoked |-> FALSE,
                 deinits |-> 0]]
  /\ views = <<>>
  /\ bufs = <<>>
  /\ queue = [d \in Devices |-> <<>>]
  /\ wait = NoWait
  /\ hostmem = HostInit
  /\ local = [n \in LocalNames |-> 0]
  /\ last = Outcome("call_initialize", "ok", "hip_call", 0)

\* The tensors the "call" caller builds: the declared one, one of another
\* shape and one of another element type, all of the same byte size.
CallerTensors ==
  { Tensor4xf32, [shape |-> <<2, 2>>, etype |-> "f32"], [shape |-> <<4>>, etype |-> "i32"] }

Running(m) == mode = m /\ wait.op = "none"

Allocated == { v \in DOMAIN views : views[v].of = "" }

\* The "call" caller works on one Call, either of the two.
Chosen(c) ==
  /\ calls[c].state = "init"
  /\ \A o \in Calls \ {c} :
       calls[o].state = "init" /\ calls[o].inputs = <<>> /\ ~calls[o].invoked

Caller_Alloc(d, t) ==
  /\ Running("call")
  /\ Cardinality(Allocated) < MaxAllocs
  /\ \E fill \in FillBytes : AllocateSubmit(d, t.shape, t.etype, arg0_data, TRUE, fill)
  /\ UNCHANGED << mode, pc, drivers, local >>

Caller_AllocReturn ==
  /\ mode \in {"call", "xfer"}
  /\ AllocateReturn
  /\ UNCHANGED << mode, pc, drivers, local >>

Caller_Push(c, v) ==
  /\ Running("call")
  /\ Chosen(c)
  /\ views[v].held > 0
  /\ Len(calls[c].inputs) < MaxInputs
  /\ PushInput(c, v)
  /\ UNCHANGED << mode, pc, drivers, local >>

Caller_Invoke(c) ==
  /\ Running("call")
  /\ Chosen(c)
  /\ \E fault \in BOOLEAN, fill \in FillBytes : InvokeSubmit(c, fault, fill)
  /\ UNCHANGED << mode, pc, drivers, local >>

Caller_InvokeReturn ==
  /\ mode = "call"
  /\ InvokeReturn
  /\ UNCHANGED << mode, pc, drivers, local >>

Caller_Pop(c) ==
  /\ Running("call")
  /\ Chosen(c)
  /\ PopOutput(c)
  /\ UNCHANGED << mode, pc, drivers, local >>

Caller_Deinit(c) ==
  /\ Running("call")
  /\ Chosen(c)
  /\ Deinitialize(c)
  /\ UNCHANGED << mode, pc, drivers, local >>

Caller_Release(v) ==
  /\ mode \in {"call", "xfer"}
  /\ wait.op = "none"
  /\ views[v].held > 0
  /\ ViewRelease(v)
  /\ UNCHANGED << mode, pc, drivers, local >>

\* What the "xfer" caller hands to allocate_buffer_copy.
XferShapes == { <<4>>, <<2>>, <<>>, <<0>> }
XferTypes == { "f32", "i8" }
XferData == { arg0_data, SubSeq(arg1_data, 1, 8), <<1, 2, 3, 4>>, <<7>>, <<>> }

Xfer_Alloc(d, shape, etype, data) ==
  /\ Running("xfer")
  /\ Len(views) < MaxXferAllocs
  /\ \E ok \in BOOLEAN, fill \in FillBytes :
       AllocateSubmit(d, shape, etype, data, ok, fill)
  /\ UNCHANGED << mode, pc, drivers, local >>

\* The destination is a host array declared for the transfer, zeroed as
\* ret0_data (line 187) and results (line 240) are.
Xfer_Transfer(v, off, len, timeout) ==
  /\ Running("xfer")
  /\ views[v].held > 0
  /\ off + len <= Len(bufs[views[v].buf].bytes)
  /\ hostmem' = [hostmem EXCEPT !["scratch"] = Zeros(StorageSize(arg_shape, "f32"))]
  /\ TransferSubmit(views[v].dev, v, off, len, "scratch", timeout)
  /\ UNCHANGED << mode, pc, drivers, local >>

Xfer_TransferReturn ==
  /\ mode = "xfer"
  /\ TransferReturn
  /\ UNCHANGED << mode, pc, drivers, local >>

Xfer_TransferTimeout ==
  /\ mode = "xfer"
  /\ TransferTimeout
  /\ UNCHANGED << mode, pc, drivers, local >>

CallerNext ==
  \/ \E d \in Devices, t \in CallerTensors : Caller_Alloc(d, t)
  \/ Caller_AllocReturn
  \/ \E c \in Calls, v \in DOMAIN views : Caller_Push(c, v)
  \/ \E c \in Calls : Caller_Invoke(c)
  \/ Caller_InvokeReturn
  \/ \E c \in Calls : Caller_Pop(c)
  \/ \E c \in Calls : Caller_Deinit(c)
  \/ \E v \in DOMAIN views : Caller_Release(v)
  \/ \E d \in Devices, shape \in XferShapes, etype \in XferTypes, data \in XferData :
       Xfer_Alloc(d, shape, etype, data)
  \/ \E v \in DOMAIN views, off \in {0, 1}, len \in 0..StorageSize(arg_shape, "f32"),
        timeout \in {"infinite", "zero"} :
       /\ len \in {1, Len(bufs[views[v].buf].bytes) - off}
       /\ Xfer_Transfer(v, off, len, timeout)
  \/ Xfer_TransferReturn
  \/ Xfer_TransferTimeout

Init == DemoInit \/ CallerInit("call") \/ CallerInit("xfer")

Next == DemoNext \/ CallerNext \/ \E d \in Devices : DeviceStep(d)

Spec == Init /\ [][Next]_vars

\* The scheduling the blocking calls rely on: a Device goes on with its
\* pending work, and a caller blocked in a transfer resumes once the
\* transfer can return (the copy is done, or the timeout has elapsed).
FairSpec ==
  /\ Spec
  /\ \A d \in Devices : WF_vars(DeviceStep(d))
  /\ WF_vars(Mul_TransferRet0Return)
  /\ WF_vars(Mul_TransferRet1Return)
  /\ WF_vars(Xfer_TransferReturn)
  /\ WF_vars(Xfer_TransferTimeout)

\* ============================================================== claims
\* Every occurrence of view v in the input and output lists of the Calls.
ListRefsIn(cs, v) ==
  LET refs(c) == cs[c].inputs \o cs[c].outputs
      n(c) == Cardinality({i \in DOMAIN refs(c) : refs(c)[i] = v})
  IN n("call") + n("hip_call")

ListRefs(v) == ListRefsIn(calls, v)

\* The step is the caller's operation op (a Device's own step leaves last
\* as it is and changes the Device's queue).
Did(op) == last'.op = op /\ queue' = queue

\* C1: a push_input issued after invoke on the same Call fails and leaves
\* the Call's input list (and every other part of the Call) unchanged; in
\* the demo every push happens while its Call has not been invoked, and is
\* accepted.
C1_PushAfterInvokeFails ==
  [][ /\ (Did("push") /\ calls[last'.call].invoked)
           => /\ last'.status # "ok"
              /\ calls' = calls
              /\ views' = views
      /\ (mode' = "demo" /\ last'.op = "push")
           => (last'.status = "ok" /\ ~calls'[last'.call].invoked)
    ]_vars

\* C1's case: a push was refused because its Call had been invoked.
C1_Witness ==
  /\ last.op = "push"
  /\ last.status = "FailedPrecondition"
  /\ calls[last.call].invoked
  /\ calls[last.call].inputs # <<>>


Range(seq) == { seq[i] : i \in DOMAIN seq }

\* The results of Call c that were popped.
Popped(c) == { v \in DOMAIN views : views[v].of = c /\ v \notin Range(calls[c].outputs) }

\* C2: the output list is empty until invoke succeeds and then holds the
\* declared results, in declared order; a pop on a list that is not empty
\* succeeds, returns its first element and removes just that one; a pop on
\* an empty list (before invoke, or after the n results were popped) fails
\* with ResourceExhausted and changes nothing.  So of n results the first n
\* pops succeed, each result is returned once, and the next pop fails; the
\* demo's pops find their result.
C2_PopFrontToBack ==
  [][ /\ Did("pop") =>
           LET c == last'.call IN
           IF calls[c].outputs # <<>>
             THEN /\ last'.status = "ok"
                  /\ last'.view = Head(calls[c].outputs)
                  /\ calls'[c].outputs = Tail(calls[c].outputs)
                  /\ last'.view \notin Range(calls'[c].outputs)
             ELSE /\ last'.status = "ResourceExhausted"
                  /\ calls' = calls
                  /\ views' = views
      /\ (Did("invoke") /\ last'.status = "ok") =>
           LET c == last'.call IN
           /\ calls[c].outputs = <<>>
           /\ Len(calls'[c].outputs) = Len(DeclaredResults)
           /\ \A i \in 1..Len(DeclaredResults) :
                /\ views'[calls'[c].outputs[i]].shape = DeclaredResults[i].shape
                /\ views'[calls'[c].outputs[i]].etype = DeclaredResults[i].etype
      /\ \A c \in Calls :
           /\ ~calls'[c].invoked => calls'[c].outputs = <<>>
           /\ calls'[c].state = "init" =>
                Len(calls'[c].outputs) + Cardinality(Popped(c)')
                  \in {0, Len(DeclaredResults)}
      /\ (mode' = "demo" /\ last'.op = "pop") => last'.status = "ok"
    ]_vars

\* C2's case: every result of an invoked Call was popped, and the next pop
\* was refused.
C2_Witness ==
  /\ last.op = "pop"
  /\ last.status = "ResourceExhausted"
  /\ calls[last.call].invoked
  /\ Cardinality(Popped(last.call)) = Len(DeclaredResults)


\* The views listed in inputs are exactly the declared inputs of
\* simple_mul, in number, shape and element type.
AsDeclared(inputs) ==
  /\ Len(inputs) = Len(DeclaredInputs)
  /\ \A i \in DOMAIN inputs :
       [shape |-> views[inputs[i]].shape, etype |-> views[inputs[i]].etype]
         = DeclaredInputs[i]

InputsAsDeclared(c) == AsDeclared(calls[c].inputs)

\* C3: the invoke of a Call whose input list is not exactly the declared
\* inputs (fewer, more, or of another shape or element type) fails with
\* InvalidArgument, submits no work and leaves the output list empty, and
\* the list stays empty afterwards; an invoke goes ahead, and a Call has
\* results, only when exactly the declared inputs were pushed.  The demo
\* pushes two tensor<4xf32> views on each Call and is never refused.
C3_InvokeChecksSignature ==
  [][ /\ \A c \in Calls :
           (last'.op = "invoke" /\ last'.call = c
              /\ ~calls[c].invoked /\ calls'[c].invoked) =>
             IF InputsAsDeclared(c)
               THEN last'.status \in {"pending", "Internal"}
               ELSE /\ last'.status = "InvalidArgument"
                    /\ calls'[c].outputs = <<>>
                    /\ calls'[c].inputs = calls[c].inputs
                    /\ queue' = queue
                    /\ views' = views
      /\ \A c \in Calls :
           /\ calls'[c].outputs # <<>> => InputsAsDeclared(c)'
           /\ (last'.op = "invoke" /\ last'.call = c /\ last'.status = "ok")
                => (InputsAsDeclared(c)' /\ calls'[c].outputs # <<>>)
           /\ (last'.op = "invoke" /\ last'.call = c
                 /\ last'.status \in {"InvalidArgument", "Internal", "pending"})
                => calls'[c].outputs = <<>>
      /\ (mode' = "demo" /\ last'.op = "invoke") =>
           last'.status \in {"pending", "Internal", "ok"}
    ]_vars

\* C3's case: an invoke with the declared number of inputs, of another
\* shape or element type, was refused.
C3_Witness ==
  /\ last.op = "invoke"
  /\ last.status = "InvalidArgument"
  /\ Len(calls[last.call].inputs) = Len(DeclaredInputs)
  /\ calls[last.call].outputs = <<>>


\* The Device of the Session Call c was initialized on.
DeviceOfCall(c) == sessions[calls[c].session].dev

\* The buffers a piece of Device work reads or writes.
WorkBuffers(w) == IF w.kind = "mul" THEN {w.buf, w.a, w.b} ELSE {w.buf}

\* C4: a push of a Buffer View whose storage is on another Device than the
\* Call's Session is refused with a device mismatch and changes nothing,
\* and an accepted push is of a view on the Call's Device; the demo's
\* relay (result of the first Call copied to host at line 188, allocated
\* from the host copy on the second Device at line 196) gives a view with
\* storage of its own on the second Device and the first result's bytes,
\* which the push of line 209 accepts; and in every state a storage buffer
\* belongs to one Device: views sharing storage are of the same Device, a
\* Call's lists hold views of its Device, and a Device works on its own
\* buffers only.
C4_NoCrossDeviceViews ==
  [][ /\ Did("push") =>
           LET c == last'.call
               v == last'.view
           IN /\ (~calls[c].invoked /\ views[v].dev # DeviceOfCall(c)) =>
                   /\ last'.status = "DeviceMismatch"
                   /\ calls' = calls
                   /\ views' = views
              /\ last'.status = "ok" => views[v].dev = DeviceOfCall(c)
              /\ mode' = "demo" => last'.status = "ok"
      /\ (mode' = "demo" /\ pc' = "L210") =>
           LET r == views'[local'["ret0"]]
               o == views'[local'["ret0_out"]]
           IN /\ o.dev = DeviceOfCall("call")'
              /\ r.dev = DeviceOfCall("hip_call")'
              /\ r.dev # o.dev
              /\ r.buf # o.buf
              /\ bufs'[r.buf].bytes = bufs'[o.buf].bytes
              /\ calls'["hip_call"].inputs = << local'["ret0"] >>
      /\ \A v \in DOMAIN views' : bufs'[views'[v].buf].dev = views'[v].dev
      /\ \A v, w \in DOMAIN views' :
           views'[v].buf = views'[w].buf => views'[v].dev = views'[w].dev
      /\ \A c \in Calls : \A v \in Range(calls'[c].inputs \o calls'[c].outputs) :
           views'[v].dev = DeviceOfCall(c)'
      /\ \A d \in Devices : \A i \in DOMAIN queue'[d] :
           \A b \in WorkBuffers(queue'[d][i]) : bufs'[b].dev = d
    ]_vars

\* C4's case: a view of one Device was pushed onto a Call of the other
\* Device, which had not been invoked, and was refused.
C4_Witness ==
  /\ last.op = "push"
  /\ last.status = "DeviceMismatch"
  /\ views[last.view].dev # DeviceOfCall(last.call)
  /\ ~calls[last.call].invoked


\* The elements stored in the buffer of view v, as scaled integers.
Elements(v) == DecodeAll(bufs[views[v].buf].bytes)

\* C5: in the demo the first Call, on [1.0, 1.1, 1.2, 1.3] and
\* [10, 100, 1000, 10000], yields [10.0, 110.0, 1200.0, 13000.0]; that
\* result, relayed through ret0_data to the second Device and multiplied
\* with [2000, 200, 20, 2], yields [20000.0, 22000.0, 24000.0, 26000.0],
\* which is what the host array results holds once the transfer of line 241
\* has returned.  Values are exact integers, Scale to the unit; the result
\* of any Call is the element-wise product of its two inputs.
C5_PipelineResult ==
  /\ \A c \in Calls :
       (calls[c].state = "init" /\ calls[c].outputs # <<>>) =>
         LET a == Elements(calls[c].inputs[1])
             b == Elements(calls[c].inputs[2])
             r == Elements(calls[c].outputs[1])
         IN /\ Len(r) = Len(a)
            /\ \A i \in DOMAIN r : r[i] * Scale \in (a[i] * b[i] - Scale + 1)..(a[i] * b[i])
  /\ (mode = "demo" /\ local["ret0_out"] # 0) =>
       Elements(local["ret0_out"]) = << 100, 1100, 12000, 130000 >>
  /\ (mode = "demo" /\ pc \in {"L196", "L196w", "L209"}) =>
       DecodeAll(hostmem["ret0_data"]) = << 100, 1100, 12000, 130000 >>
  /\ (mode = "demo" /\ local["ret0"] # 0 /\ views[local["ret0"]].rc > 0) =>
       Elements(local["ret0"]) = << 100, 1100, 12000, 130000 >>
  /\ (mode = "demo" /\ local["ret1"] # 0 /\ views[local["ret1"]].rc > 0) =>
       Elements(local["ret1"]) = << 200000, 220000, 240000, 260000 >>
  /\ (mode = "demo" /\ pc \in {"L247", "L257", "L93", "L94", "L34", "done"}) =>
       DecodeAll(hostmem["results"]) = << 200000, 220000, 240000, 260000 >>

\* C5's case: the demo ran to its end and results holds the final product.
C5_Witness ==
  /\ mode = "demo"
  /\ pc = "done"
  /\ DecodeAll(hostmem["results"]) = << 200000, 220000, 240000, 260000 >>
  /\ DecodeAll(hostmem["ret0_data"]) = << 100, 1100, 12000, 130000 >>


\* The bytes of the first Call's result, as the first Device holds them.
FirstResult == bufs[views[local["ret0_out"]].buf].bytes

\* C6: invoke and device_to_host return ok only when the Device has no
\* work of theirs left, and the storage of a result is not written once
\* invoke has returned it.  In the demo, whatever the Devices' progress,
\* the bytes uploaded to the second Device as ret0 are the first Call's
\* finished result, and the second Call is invoked only after the first
\* Call's invoke returned, its result was popped and the transfer to
\* ret0_data completed.
C6_DependentCallAfterTransfer ==
  [][ /\ (wait.op \in {"invoke", "d2h"} /\ wait'.op = "none" /\ last'.status = "ok") =>
           /\ queue[wait.dev] = <<>>
           /\ queue' = queue
           /\ \A d \in Devices : \A i \in DOMAIN queue[d] : queue[d][i].buf # wait.buf
      /\ \A v \in DOMAIN views :
           views[v].of # "" => bufs'[views[v].buf].bytes = bufs[views[v].buf].bytes
      /\ (mode' = "demo" /\ pc' = "L196w") =>
           /\ wait'.origin = FirstResult'
           /\ queue'[DeviceOfCall("call")'] = <<>>
      /\ (mode' = "demo" /\ local'["ret0"] # 0) =>
           /\ views'[local'["ret0"]].origin = FirstResult'
           /\ hostmem'["ret0_data"] = FirstResult'
      /\ (mode' = "demo" /\ calls'["hip_call"].invoked
            /\ calls'["hip_call"].state = "init") =>
           /\ calls'["call"].invoked
           /\ local'["ret0_out"] # 0
           /\ local'["ret0"] # 0
           /\ hostmem'["ret0_data"] = FirstResult'
           /\ queue'[DeviceOfCall("call")'] = <<>>
           /\ bufs'[views'[calls'["hip_call"].inputs[1]].buf].bytes = FirstResult'
    ]_vars

\* C6's case: the second Call was invoked and returned, on the relayed
\* bytes of the first result.
C6_Witness ==
  /\ mode = "demo"
  /\ last.op = "invoke" /\ last.call = "hip_call" /\ last.status = "ok"
  /\ calls["hip_call"].invoked
  /\ hostmem["ret0_data"] = FirstResult
  /\ views[local["ret0"]].origin = FirstResult


C8_DeinitExactlyOnce ==
  /\ \A c \in Calls : calls[c].deinits <= 1
  /\ (mode = "demo" /\ pc \in {"done", "aborted"}) =>
       \A c \in Calls :
         /\ calls[c].state # "init"
         /\ calls[c].state = "deinit" => calls[c].deinits = 1


\* C9: the Instance is never released twice, and is released once when
\* main returns; it is released from the live state with every Session
\* already released, no Device reference held by a Session or by the
\* caller and no Device work pending, so that in every state where the
\* Instance is released no Session is alive and no Device is referenced;
\* and nothing happens after the release: no step changes any Session,
\* Device or Call.  (A run that IREE_CHECK_OK aborts never reaches the
\* release.)
C9_InstanceReleasedLast ==
  [][ /\ instance'.releases <= 1
      /\ instance'.state = "released" =>
           /\ instance'.releases = 1
           /\ \A s \in Sessions : sessions'[s].state # "live"
           /\ \A d \in Devices : devices'[d] = 0 /\ ~devHeld'[d] /\ queue'[d] = <<>>
           /\ \A c \in Calls : calls'[c].state # "init"
           /\ wait'.op = "none"
      /\ (instance.state # "released" /\ instance'.state = "released") =>
           /\ instance.state = "live"
           /\ last'.op = "instance_release"
           /\ \A s \in Sessions : sessions[s].state = "released"
           /\ \A d \in Devices : devices[d] = 0 /\ ~devHeld[d]
           /\ sessions' = sessions /\ devices' = devices /\ calls' = calls
      /\ instance.state = "released" => vars' = vars
      /\ (mode' = "demo" /\ pc' = "done") =>
           (instance'.state = "released" /\ instance'.releases = 1)
      /\ \A s \in Sessions :
           sessions'[s].state = "live" => instance'.state = "live"
      /\ \A d \in Devices :
           (devices'[d] > 0 \/ devHeld'[d]) => instance'.state = "live"
    ]_vars

\* C9's case: main has released the Instance, after both Sessions.
C9_Witness ==
  /\ instance.state = "released"
  /\ instance.releases = 1
  /\ last.op = "instance_release"
  /\ \A s \in Sessions : sessions[s].state = "released"


\* C10: allocate_buffer_copy is refused for its size exactly when the
\* length of host_data differs from product(shape) times the element size;
\* with the right length it succeeds whenever the Device grants the
\* storage, and the view's storage then holds host_data.  A device_to_host
\* transfer of such a view that returned ok has copied the bytes it was
\* asked for, so a transfer of the full region (offset 0, length = storage
\* size) leaves host_data, byte for byte, in the destination.  The demo's
\* allocations pass arrays of the size of their shape and are never
\* refused for their size.
C10_AllocTransferRoundTrip ==
  /\ last.op = "alloc" =>
       /\ last.status = "SizeMismatch" <=> last.len # last.size
       /\ last.len = last.size => last.status \in {"pending", "ok", "ResourceExhausted"}
       /\ last.status = "pending" =>
            /\ wait.op = "alloc"
            /\ last.size = Product(wait.shape) * ElementSize(wait.etype)
            /\ wait.origin # <<>> => Len(wait.origin) = last.len
       /\ last.status = "ok" =>
            LET v == views[last.view] IN
            /\ Len(v.origin) = Product(v.shape) * ElementSize(v.etype)
            /\ Len(v.origin) = last.len
            /\ bufs[v.buf].bytes = v.origin
       /\ mode = "demo" => last.status # "SizeMismatch"
  /\ \A v \in DOMAIN views :
       (views[v].of = "" /\ bufs[views[v].buf].live) =>
         /\ bufs[views[v].buf].bytes = views[v].origin
         /\ Len(views[v].origin) = Product(views[v].shape) * ElementSize(views[v].etype)
  /\ (last.op = "d2h" /\ last.status = "ok") =>
       LET v == views[last.view] IN
       /\ \A i \in 1..last.len :
            hostmem[last.dest][i] = bufs[v.buf].bytes[last.off + i]
       /\ (v.of = "" /\ last.off = 0 /\ last.len = Len(bufs[v.buf].bytes)) =>
            /\ last.len = Product(v.shape) * ElementSize(v.etype)
            /\ SubSeq(hostmem[last.dest], 1, last.len) = v.origin

\* C10's case: a view allocated from host data that is not all zero was
\* transferred back in full, and the destination holds the data.
C10_Witness ==
  /\ mode = "xfer"
  /\ last.op = "d2h" /\ last.status = "ok"
  /\ views[last.view].of = ""
  /\ last.off = 0
  /\ last.len = Len(views[last.view].origin)
  /\ last.len > 0
  /\ views[last.view].origin # Zeros(last.len)
  /\ SubSeq(hostmem[last.dest], 1, last.len) = views[last.view].origin


\* C11: an allocate_buffer_copy whose host data has another byte length
\* than product(shape) times the element size fails with SizeMismatch,
\* and only such a one does; it returns no Buffer View, allocates no
\* storage and submits no copy.  Every allocation of the demo offers the
\* 16 bytes of four 4-byte floats for the shape {4}.
C11_SizeMismatchAllocatesNothing ==
  [][ /\ (last'.op = "alloc" /\ last' # last /\ last'.len # last'.size) =>
           /\ last'.status = "SizeMismatch"
           /\ last'.view = 0
           /\ views' = views
           /\ bufs' = bufs
           /\ queue' = queue
           /\ wait' = wait
      /\ (last'.op = "alloc" /\ last'.status = "SizeMismatch") =>
           /\ last'.len # last'.size
           /\ wait'.op # "alloc"
      /\ Len(bufs') > Len(bufs) =>
           /\ Len(bufs') = Len(bufs) + 1
           /\ last'.op \in {"alloc", "invoke"}
           /\ last'.status = "pending"
           /\ last'.op = "alloc" =>
                (last'.len = last'.size /\ Len(bufs'[Len(bufs')].bytes) = last'.size)
      /\ (mode' = "demo" /\ last'.op = "alloc") =>
           /\ last'.size = Product(arg_shape) * F32Bytes
           /\ last'.len = last'.size
           /\ last'.status # "SizeMismatch"
    ]_vars

\* C11's case: an allocation was refused for its size and there is neither
\* a view nor storage.
C11_Witness ==
  /\ last.op = "alloc"
  /\ last.status = "SizeMismatch"
  /\ last.len # last.size
  /\ views = <<>>
  /\ bufs = <<>>
  /\ wait.op = "none"


\* C12, as the spec states it: a NotFound from try_create_default_device
\* is recoverable; the program goes on after it, with the Instance and the
\* Devices it already acquired still valid.
C12_NotFoundIsRecoverable ==
  (mode = "demo" /\ last.op = "create_device" /\ last.status = "NotFound") =>
    /\ pc # "aborted"
    /\ instance.state = "live"


\* The bytes a transfer was asked to copy, as the Device holds them.
Requested == SubSeq(bufs[views[last.view].buf].bytes, last.off + 1, last.off + last.len)

\* C13: a device_to_host transfer returns Timeout only when it was issued
\* with a zero timeout and the Device had not finished the copy; the copy
\* is then abandoned and the caller is no longer blocked.  A transfer with
\* the infinite timeout, as both transfers of the demo are, never times
\* out and returns only with the copy complete in the destination.  A
\* transfer with a zero timeout always returns, whatever the Device does;
\* one with the infinite timeout returns provided the Device goes on with
\* its pending work.
C13_TransferTimeout ==
  /\ [][ /\ (wait.op = "d2h" /\ wait'.op = "none") =>
              /\ last'.op = "d2h"
              /\ last'.status \in {"ok", "Timeout"}
              /\ last'.status = "Timeout" =>
                   /\ wait.timeout = "zero"
                   /\ queue[wait.dev] # <<>>
                   /\ \A d \in Devices : \A i \in DOMAIN queue'[d] :
                        queue'[d][i].kind # "d2h"
                   /\ hostmem' = hostmem
              /\ last'.status = "ok" =>
                   /\ queue[wait.dev] = <<>>
                   /\ SubSeq(hostmem'[last'.dest], 1, last'.len) = Requested'
              /\ wait.timeout = "infinite" => last'.status = "ok"
         /\ (mode' = "demo" /\ wait'.op = "d2h") => wait'.timeout = "infinite"
         /\ (mode' = "demo" /\ last'.op = "d2h") => last'.status \in {"pending", "ok"}
       ]_vars
  /\ (wait.op = "d2h" /\ wait.timeout = "zero") ~> (wait.op = "none")
  /\ (wait.op = "d2h" /\ wait.timeout = "infinite") ~> (wait.op = "none" /\ last.status = "ok")

\* C13's case: a transfer with a zero timeout returned Timeout, and the
\* destination does not hold the bytes that were asked for.
C13_Witness ==
  /\ last.op = "d2h"
  /\ last.status = "Timeout"
  /\ wait.op = "none"
  /\ SubSeq(hostmem[last.dest], 1, last.len) # Requested


\* The Sessions alive and bound to Device d.
BoundTo(d) == { s \in Sessions : sessions[s].state = "live" /\ sessions[s].dev = d }

\* C14: a Device is referenced, once each, by the Sessions bound to it and
\* by the handle the caller holds, so it is alive as long as a Session
\* bound to it is; the demo gives up its handle right after creating the
\* Session, and every allocation, invoke and transfer after that works on
\* a Device with a positive count.  A live Session stays bound to its
\* Device, and a Device's count falls to zero only in the release of its
\* Session, which leaves the other Device's count alone.
C14_DeviceOutlivesSession ==
  [][ /\ \A d \in Devices :
           /\ devices'[d] = Cardinality(BoundTo(d)') + (IF devHeld'[d] THEN 1 ELSE 0)
           /\ BoundTo(d)' # {} => devices'[d] >= 1
           /\ (queue'[d] # <<>> \/ (wait'.op # "none" /\ wait'.dev = d)) =>
                (devices'[d] >= 1 /\ BoundTo(d)' # {})
      /\ \A s \in Sessions :
           (sessions[s].state = "live" /\ sessions'[s].state = "live") =>
             sessions'[s].dev = sessions[s].dev
      /\ \A d \in Devices :
           (devices[d] > 0 /\ devices'[d] = 0 /\ BoundTo(d) # {}) =>
             /\ last'.op = "session_release"
             /\ BoundTo(d)' = {}
             /\ \A o \in Devices \ {d} : devices'[o] = devices[o]
      /\ \A s \in Sessions :
           (sessions[s].state = "live" /\ sessions'[s].state = "released") =>
             /\ devices'[sessions[s].dev] = devices[sessions[s].dev] - 1
             /\ \A o \in Devices \ {sessions[s].dev} : devices'[o] = devices[o]
             /\ \A t \in Sessions \ {s} : sessions'[t] = sessions[t]
      /\ (mode' = "demo" /\ last'.op \in {"alloc", "push", "invoke", "pop", "d2h"}) =>
           \A d \in Devices :
             /\ ~devHeld'[d]
             /\ devices'[d] = 1
             /\ BoundTo(d)' # {}
    ]_vars

\* C14's case: the first Session was released and its Device with it,
\* while the second Session still keeps its Device alive.
C14_Witness ==
  /\ mode = "demo" /\ pc = "L94"
  /\ sessions["cpu_session"].state = "released"
  /\ devices[sessions["cpu_session"].dev] = 0
  /\ sessions["hip_session"].state = "live"
  /\ devices[sessions["hip_session"].dev] = 1
  /\ ~devHeld[sessions["hip_session"].dev]


\* The result views invoke has produced for Call c.
ResultsOf(c) == { v \in DOMAIN views : views[v].of = c }

\* The invoke of Call c has returned with a failure.
InvokeFailed(c) ==
  /\ calls[c].state = "init"
  /\ calls[c].invoked
  /\ wait.call # c
  /\ ResultsOf(c) = {}

\* C15: once a Call was invoked, with success or failure, a further invoke
\* of it is refused and changes nothing, and since pushes are refused too
\* its inputs stay as they were: invoke produces results at most once per
\* Call.  After a failed invoke, push, invoke and pop on the Call all
\* fail and leave it as it is; deinitialize is the operation that still
\* works.  The demo invokes each of its Calls once.
C15_NoSecondInvoke ==
  [][ /\ \A c \in Calls :
           /\ (Did("invoke") /\ last'.call = c /\ calls[c].invoked /\ wait.op = "none") =>
                /\ last'.status = "FailedPrecondition"
                /\ calls' = calls
                /\ views' = views
                /\ bufs' = bufs
                /\ wait' = wait
           /\ (calls[c].invoked /\ calls[c].state = "init" /\ calls'[c].state = "init") =>
                /\ calls'[c].invoked
                /\ calls'[c].inputs = calls[c].inputs
           /\ Cardinality(ResultsOf(c)') <= Len(DeclaredResults)
           /\ (ResultsOf(c)' # ResultsOf(c)) =>
                /\ ResultsOf(c) = {}
                /\ wait.op = "invoke" /\ wait.call = c
                /\ last'.op = "invoke" /\ last'.status = "ok"
           /\ (InvokeFailed(c) /\ last'.call = c /\ last' # last) =>
                /\ last'.op \in {"push", "invoke", "pop", "deinitialize"}
                /\ last'.op # "deinitialize" =>
                     (last'.status # "ok" /\ last'.status # "pending" /\ calls' = calls)
                /\ last'.op = "deinitialize" =>
                     (last'.status = "ok" /\ calls'[c].state = "deinit")
      /\ (mode' = "demo" /\ last'.op = "invoke") => last'.status # "FailedPrecondition"
    ]_vars

\* C15's case: a Call whose invoke had succeeded was invoked again and
\* refused.
C15_Witness ==
  /\ last.op = "invoke"
  /\ last.status = "FailedPrecondition"
  /\ calls[last.call].invoked
  /\ ResultsOf(last.call) # {}


\* View v is referenced and its storage allocated.
AliveIn(vs, bs, v) == vs[v].rc >= 1 /\ bs[vs[v].buf].live

Alive(v) == AliveIn(views, bufs, v)

C17_AllViewsReleased ==
  (mode = "demo" /\ pc \in {"L93", "L94", "L34", "done"}) =>
    /\ \A v \in DOMAIN views : views[v].held = 0 /\ views[v].rc = 0
    /\ \A b \in DOMAIN bufs : ~bufs[b].live

=============================================================================
